---- MODULE Spec2Model ----
(***************************************************************************)
(* Model of BillingBucketParser/lambda_function.py: lambda_handler reads a *)
(* CSV object from the billing bucket, scans its data rows, and on the     *)
(* first invalid row copies the object to the error bucket and deletes it  *)
(* from the billing bucket.                                                *)
(*                                                                         *)
(* Text values that the code parses (dates, amounts) are sequences of      *)
(* one-character strings, so that strptime and float are computed on the   *)
(* characters.  A file is the list that splitlines()/csv.reader produce:   *)
(* a sequence of rows, each row a sequence of fields.  Python's row[n] is  *)
(* row[n+1] here.                                                          *)
(***************************************************************************)
EXTENDS Integers, Sequences, FiniteSets, TLC

\* ------------------------------------------------------------------ bounds
\* Largest number of data rows (lines after the header) in the uploaded file.
MaxRows == 2

\* ------------------------------------------------------- program constants
valid_product_lines == {"Bakery", "Meat", "Dairy"}

valid_currencies == {"USD", "MXN", "CAD"}

\* Two deliveries of the same S3 event: sequential re-invocation and the
\* unguarded concurrent case are both interleavings of these.
Invocations == {"a", "b"}

\* A bucket is modelled by the set of bodies stored under the key csv_file:
\* empty when the key does not exist, one body otherwise.
NoObject == {}

\* value of lambda_handler's return: the dict of the else branch, None when
\* the function falls off its end, Pending while it has not returned.
Pending == [kind |-> "pending"]

NoneResult == [kind |-> "None"]

Accepted200 == [statusCode |-> 200, body |-> "No errors were found in the CSV file!"]

\* ------------------------------------------------------ character helpers
DigitChars == <<"0", "1", "2", "3", "4", "5", "6", "7", "8", "9">>

IsDigit(c) == \E n \in 1..10 : DigitChars[n] = c

DigitVal(c) == (CHOOSE n \in 1..10 : DigitChars[n] = c) - 1

\* character at position p, or "" past the end
At(s, p) == IF p >= 1 /\ p <= Len(s) THEN s[p] ELSE ""

\* ------------------------------------------- datetime.strptime('%Y-%m-%d')
IsLeap(y) == (y % 4 = 0 /\ y % 100 # 0) \/ (y % 400 = 0)

DaysInMonth(y, m) ==
    IF m = 2 THEN (IF IsLeap(y) THEN 29 ELSE 28)
    ELSE IF m \in {4, 6, 9, 11} THEN 30 ELSE 31

\* %m is the regex 1[0-2]|0[1-9]|[1-9]; the result is <<month, next position>>
\* or <<0, 0>> when no alternative matches at p.
MatchMonth(s, p) ==
    IF At(s, p) = "1" /\ At(s, p + 1) \in {"0", "1", "2"}
      THEN <<10 + DigitVal(At(s, p + 1)), p + 2>>
    ELSE IF At(s, p) = "0" /\ IsDigit(At(s, p + 1)) /\ At(s, p + 1) # "0"
      THEN <<DigitVal(At(s, p + 1)), p + 2>>
    ELSE IF IsDigit(At(s, p)) /\ At(s, p) # "0"
      THEN <<DigitVal(At(s, p)), p + 1>>
    ELSE <<0, 0>>

\* %d is the regex 3[0-1]|[1-2]\d|0[1-9]|[1-9]| [1-9]
MatchDay(s, p) ==
    IF At(s, p) = "3" /\ At(s, p + 1) \in {"0", "1"}
      THEN <<30 + DigitVal(At(s, p + 1)), p + 2>>
    ELSE IF At(s, p) \in {"1", "2"} /\ IsDigit(At(s, p + 1))
      THEN <<10 * DigitVal(At(s, p)) + DigitVal(At(s, p + 1)), p + 2>>
    ELSE IF At(s, p) = "0" /\ IsDigit(At(s, p + 1)) /\ At(s, p + 1) # "0"
      THEN <<DigitVal(At(s, p + 1)), p + 2>>
    ELSE IF IsDigit(At(s, p)) /\ At(s, p) # "0"
      THEN <<DigitVal(At(s, p)), p + 1>>
    ELSE IF At(s, p) = " " /\ IsDigit(At(s, p + 1)) /\ At(s, p + 1) # "0"
      THEN <<DigitVal(At(s, p + 1)), p + 2>>
    ELSE <<0, 0>>

\* TRUE iff datetime.strptime(s, '%Y-%m-%d') returns, FALSE iff it raises
\* ValueError: four digits, "-", month, "-", day, nothing left over, and a
\* date that exists (year >= 1, day within the month).
StrptimeOK(s) ==
    /\ \A p \in 1..4 : IsDigit(At(s, p))
    /\ At(s, 5) = "-"
    /\ LET mm == MatchMonth(s, 6)
       IN /\ mm[2] # 0
          /\ At(s, mm[2]) = "-"
          /\ LET dd == MatchDay(s, mm[2] + 1)
                 y  == 1000 * DigitVal(s[1]) + 100 * DigitVal(s[2])
                       + 10 * DigitVal(s[3]) + DigitVal(s[4])
             IN /\ dd[2] # 0
                /\ dd[2] = Len(s) + 1
                /\ y >= 1
                /\ dd[1] <= DaysInMonth(y, mm[1])

\* ----------------------------------------------------------------- float()
RECURSIVE SkipDigits(_, _)
\* first position >= p of s that holds no digit
SkipDigits(s, p) == IF IsDigit(At(s, p)) THEN SkipDigits(s, p + 1) ELSE p

RECURSIVE SkipSpaces(_, _)
SkipSpaces(s, p) == IF At(s, p) = " " THEN SkipSpaces(s, p + 1) ELSE p

RECURSIVE EndOfText(_, _)
\* last position <= p of s that holds no space (0 when there is none)
EndOfText(s, p) == IF p >= 1 /\ s[p] = " " THEN EndOfText(s, p - 1) ELSE p

\* TRUE iff float(s) returns, FALSE iff it raises ValueError.  The grammar
\* is: surrounding blanks, an optional sign, then either decimal digits with
\* an optional point and an optional exponent, or one of inf, infinity, nan.
FloatOK(s) ==
    LET b    == SkipSpaces(s, 1)
        e    == EndOfText(s, Len(s))
        p0   == IF At(s, b) \in {"+", "-"} THEN b + 1 ELSE b
        p1   == SkipDigits(s, p0)
        p2   == IF At(s, p1) = "." THEN SkipDigits(s, p1 + 1) ELSE p1
        nDig == (p1 - p0) + (IF At(s, p1) = "." THEN p2 - p1 - 1 ELSE 0)
        x0   == IF At(s, p2 + 1) \in {"+", "-"} THEN p2 + 2 ELSE p2 + 1
        p3   == IF At(s, p2) \in {"e", "E"} THEN SkipDigits(s, x0) ELSE p2
        word == IF p0 <= e THEN SubSeq(s, p0, e) ELSE << >>
    IN \/ /\ nDig >= 1
          /\ At(s, p2) \in {"e", "E"} => p3 > x0
          /\ p3 = e + 1
       \/ word \in { <<"i", "n", "f">>, <<"n", "a", "n">>,
                     <<"i", "n", "f", "i", "n", "i", "t", "y">> }

\* ------------------------------------------------------------ input files
Chars(d1, d2, d3, d4, d5, d6, d7, d8, d9, d10) == <<d1, d2, d3, d4, d5, d6, d7, d8, d9, d10>>

DateSamples ==
    { Chars("2", "0", "2", "3", "-", "0", "1", "-", "1", "5"),
      Chars("2", "0", "2", "3", "-", "0", "2", "-", "3", "0"),
      Chars("1", "5", "/", "0", "1", "/", "2", "0", "2", "3") }

AmountSamples == { <<"1", "2", ".", "5">>, <<"a", "b", "c">> }

ProductLineSamples == {"Bakery", "Toys"}

CurrencySamples == {"USD", "EUR"}

\* a nine-column line of the billing file; columns the handler never reads
\* hold "x", column 0 is filled in with the record number by FileOf
MkRow(pl, date, cur, amt) == <<0, "x", "x", "x", pl, "x", date, cur, amt>>

\* csv.reader yields [] for a blank line
BlankRow == << >>

RowSamples ==
    { MkRow(pl, d, c, a) : pl \in ProductLineSamples, d \in DateSamples,
                           c \in CurrencySamples, a \in AmountSamples }
    \cup { BlankRow }

Header == <<"id", "x", "x", "x", "product_line", "x", "date", "currency", "amount">>

WithId(row, k) == IF Len(row) = 0 THEN row ELSE [row EXCEPT ![1] = k]

\* the list of parsed lines of a file with the given data rows
FileOf(rs) == <<Header>> \o [k \in 1..Len(rs) |-> WithId(rs[k], k)]

Files ==
    { << >> } \cup
    UNION { { FileOf(rs) : rs \in [1..n -> RowSamples] } : n \in 0..MaxRows }

\* a body left in the error bucket under the same key by an earlier upload
OldFile == << <<"old">> >>

\* ------------------------------------------------------------------ state
VARIABLES
    original,     \* body uploaded to the billing bucket (the event's object)
    billing,      \* billing bucket, key csv_file
    quarantine,   \* error bucket, key csv_file
    pc,           \* position of each invocation in lambda_handler
    data,         \* local: list of lines
    idx,          \* local: position of the for loop in data[1:]
    error_found,  \* local
    copy_source,  \* local: {} while unbound
    printed,      \* what the invocation printed
    calls,        \* storage calls the invocation issued, with their outcome
    result,       \* value returned
    exc           \* exception that left the handler, "none" otherwise

vars == <<original, billing, quarantine, pc, data, idx, error_found,
          copy_source, printed, calls, result, exc>>

Init ==
    /\ original \in Files
    /\ billing = {original}
    /\ quarantine \in {NoObject, {OldFile}}
    /\ pc = [i \in Invocations |-> "start"]
    /\ data = [i \in Invocations |-> << >>]
    /\ idx = [i \in Invocations |-> 1]
    /\ error_found = [i \in Invocations |-> FALSE]
    /\ copy_source = [i \in Invocations |-> {}]
    /\ printed = [i \in Invocations |-> << >>]
    /\ calls = [i \in Invocations |-> << >>]
    /\ result = [i \in Invocations |-> Pending]
    /\ exc = [i \in Invocations |-> "none"]

\* ----------------------------------------------------------- the handler
\* data[1:] (a slice of an empty list is the empty list)
DataRows(d) == IF Len(d) = 0 THEN << >> ELSE Tail(d)

\* ObjGet as it would be if a missing key read as an empty body
ObjGet_EmptyOnMissing(bucket) ==
    IF bucket = NoObject
      THEN [ok |-> TRUE, body |-> << >>]
      ELSE [ok |-> TRUE, body |-> CHOOSE b \in bucket : TRUE]

\* obj.get()['Body'].read().decode('utf-8').splitlines(): the body when the
\* key exists; boto3 raises NoSuchKey when it does not.
ObjGet(bucket) ==
    IF bucket = NoObject
      THEN [ok |-> FALSE, body |-> << >>]
      ELSE [ok |-> TRUE, body |-> CHOOSE b \in bucket : TRUE]

\* RowOutcome with the currency check placed before the product line check
RowOutcome_CurrencyFirst(row) ==
    IF Len(row) < 9 THEN "IndexError"
    ELSE IF ~FloatOK(row[9]) THEN "ValueError"
    ELSE IF row[8] \notin valid_currencies THEN "currency"
    ELSE IF row[5] \notin valid_product_lines THEN "product_line"
    ELSE IF ~StrptimeOK(row[7]) THEN "date"
    ELSE "ok"

\* The statements of one loop iteration up to the first that ends it:
\* "IndexError" (row[6], row[4], row[7] or row[8] out of range), "ValueError"
\* (float(row[8])), then the three checks in the order of the code, "ok" when
\* the iteration reaches its end.
RowOutcome(row) ==
    IF Len(row) < 9 THEN "IndexError"
    ELSE IF ~FloatOK(row[9]) THEN "ValueError"
    ELSE IF row[5] \notin valid_product_lines THEN "product_line"
    ELSE IF row[8] \notin valid_currencies THEN "currency"
    ELSE IF ~StrptimeOK(row[7]) THEN "date"
    ELSE "ok"

\* the message printed with the break: record number, rule, offending value
ErrorLine(row, kind) ==
    [kind |-> kind, record |-> row[1],
     value |-> IF kind = "product_line" THEN row[5]
               ELSE IF kind = "currency" THEN row[8] ELSE row[7]]

\* BindCopySource with the assignment made unconditionally
BindCopySource_Always(ef) == { [Bucket |-> "billing_bucket", Key |-> "csv_file"] }

\* if error_found: copy_source = {...}   (the name stays unbound otherwise)
BindCopySource(ef) ==
    IF ef THEN { [Bucket |-> "billing_bucket", Key |-> "csv_file"] } ELSE { }

\* AfterCopy with the delete outside the try block's protection
AfterCopy_Always(ok) == "delete"

\* where control goes after s3.meta.client.copy inside the try block
AfterCopy(ok) == IF ok THEN "delete" ELSE "done"

\* ExceptClause re-raising after the print
ExceptClause_Reraise(e) == [pc |-> "raised", exc |-> e, line |-> [kind |-> "move_error", error |-> e]]

\* the except clause: the exception is printed and the function falls
\* through to its end
ExceptClause(e) == [pc |-> "done", exc |-> "none", line |-> [kind |-> "move_error", error |-> e]]

\* what a bucket holds after a successful client.copy of source into it
CopyInto(source, dest) == source

Append1(f, i, x) == [f EXCEPT ![i] = Append(@, x)]

\* lines 19-20
Read(i) ==
    /\ pc[i] = "start"
    /\ LET r == ObjGet(billing)
       IN IF r.ok
            THEN /\ data' = [data EXCEPT ![i] = r.body]
                 /\ pc' = [pc EXCEPT ![i] = "scan"]
                 /\ calls' = Append1(calls, i, <<"get", "ok">>)
                 /\ exc' = exc
            ELSE /\ pc' = [pc EXCEPT ![i] = "raised"]
                 /\ exc' = [exc EXCEPT ![i] = "NoSuchKey"]
                 /\ calls' = Append1(calls, i, <<"get", "fail">>)
                 /\ data' = data
    /\ UNCHANGED <<original, billing, quarantine, idx, error_found,
                   copy_source, printed, result>>

\* lines 32-53: one iteration of the for loop
ScanRow(i) ==
    /\ pc[i] = "scan"
    /\ idx[i] <= Len(DataRows(data[i]))
    /\ LET row == DataRows(data[i])[idx[i]]
           o   == RowOutcome(row)
       IN IF o \in {"IndexError", "ValueError"}
            THEN /\ pc' = [pc EXCEPT ![i] = "raised"]
                 /\ exc' = [exc EXCEPT ![i] = o]
                 /\ UNCHANGED <<idx, error_found, copy_source, printed>>
          ELSE IF o = "ok"
            THEN /\ idx' = [idx EXCEPT ![i] = @ + 1]
                 /\ UNCHANGED <<pc, exc, error_found, copy_source, printed>>
          ELSE   \* error_found = True; print; break; then lines 56-60
                 /\ error_found' = [error_found EXCEPT ![i] = TRUE]
                 /\ printed' = Append1(printed, i, ErrorLine(row, o))
                 /\ copy_source' = [copy_source EXCEPT ![i] = BindCopySource(TRUE)]
                 /\ pc' = [pc EXCEPT ![i] = "copy"]
                 /\ UNCHANGED <<idx, exc>>
    /\ UNCHANGED <<original, billing, quarantine, data, calls, result>>

\* the for loop is exhausted; lines 56-60
ScanEnd(i) ==
    /\ pc[i] = "scan"
    /\ idx[i] > Len(DataRows(data[i]))
    /\ copy_source' = [copy_source EXCEPT ![i] = BindCopySource(error_found[i])]
    /\ pc' = [pc EXCEPT ![i] = "copy"]
    /\ UNCHANGED <<original, billing, quarantine, data, idx, error_found,
                   printed, calls, result, exc>>

\* lines 61-63 (and 66-67 when the statement raises)
Copy(i) ==
    /\ pc[i] = "copy"
    /\ \/ \* evaluating the argument copy_source raises UnboundLocalError
          \* before any request is sent
          /\ copy_source[i] = { }
          /\ LET h == ExceptClause("UnboundLocalError")
             IN /\ pc' = [pc EXCEPT ![i] = h.pc]
                /\ exc' = [exc EXCEPT ![i] = IF h.pc = "raised" THEN "UnboundLocalError" ELSE "none"]
                /\ printed' = Append1(printed, i, h.line)
                /\ result' = [result EXCEPT ![i] = IF h.pc = "done" THEN NoneResult ELSE @]
          /\ UNCHANGED <<quarantine, calls>>
       \/ \* the copy succeeds: only possible while the source key exists
          /\ copy_source[i] # { }
          /\ billing # NoObject
          /\ quarantine' = CopyInto(billing, quarantine)
          /\ calls' = Append1(calls, i, <<"copy", "ok">>)
          /\ printed' = Append1(printed, i, [kind |-> "moved"])
          /\ pc' = [pc EXCEPT ![i] = AfterCopy(TRUE)]
          /\ UNCHANGED <<result, exc>>
       \/ \* the copy raises (missing source key, or any client error)
          /\ copy_source[i] # { }
          /\ LET h == ExceptClause("ClientError")
                 n == IF h.pc = "raised" THEN "raised" ELSE AfterCopy(FALSE)
             IN /\ pc' = [pc EXCEPT ![i] = n]
                /\ exc' = [exc EXCEPT ![i] = IF n = "raised" THEN "ClientError" ELSE "none"]
                /\ printed' = Append1(printed, i, h.line)
                /\ result' = [result EXCEPT ![i] = IF n = "done" THEN NoneResult ELSE @]
          /\ calls' = Append1(calls, i, <<"copy", "fail">>)
          /\ UNCHANGED quarantine
    /\ UNCHANGED <<original, billing, data, idx, error_found, copy_source>>

\* lines 64-65, then the try statement's else clause (lines 73-77) when
\* nothing raised, or lines 66-67 when the delete raises
Delete(i) ==
    /\ pc[i] = "delete"
    /\ \/ \* DeleteObject succeeds, also on a key that is already gone
          /\ billing' = NoObject
          /\ calls' = Append1(calls, i, <<"delete", "ok">>)
          /\ printed' = Append1(printed, i, [kind |-> "deleted"])
          /\ result' = [result EXCEPT ![i] = Accepted200]
          /\ pc' = [pc EXCEPT ![i] = "done"]
          /\ exc' = exc
       \/ /\ LET h == ExceptClause("ClientError")
             IN /\ pc' = [pc EXCEPT ![i] = h.pc]
                /\ exc' = [exc EXCEPT ![i] = IF h.pc = "raised" THEN "ClientError" ELSE "none"]
                /\ printed' = Append1(printed, i, h.line)
                /\ result' = [result EXCEPT ![i] = IF h.pc = "done" THEN NoneResult ELSE @]
          /\ calls' = Append1(calls, i, <<"delete", "fail">>)
          /\ UNCHANGED billing
    /\ UNCHANGED <<original, quarantine, data, idx, error_found, copy_source>>

Next ==
    \E i \in Invocations :
        \/ Read(i)
        \/ ScanRow(i)
        \/ ScanEnd(i)
        \/ Copy(i)
        \/ Delete(i)

Spec == Init /\ [][Next]_vars

TypeOK ==
    /\ original \in Files
    /\ billing \in {NoObject, {original}}
    /\ quarantine \in {NoObject, {OldFile}, {original}}
    /\ pc \in [Invocations -> {"start", "scan", "copy", "delete", "done", "raised"}]

\* ================================================================ claims
\* vocabulary of the claims, stated on the input and on the observable
\* outcome rather than through the handler's own operators
HasCall(i, c) == \E n \in 1..Len(calls[i]) : calls[i][n] = c

HasCallNext(i, c) == \E n \in 1..Len(calls'[i]) : calls'[i][n] = c

Mutating(cs) == \E n \in 1..Len(cs) : cs[n][1] \in {"copy", "delete"}

ReadOK(i) == HasCall(i, <<"get", "ok">>)

Ended(i) == pc[i] \in {"done", "raised"}

BadProductLine(row) == Len(row) >= 5 /\ row[5] \notin {"Bakery", "Meat", "Dairy"}

BadCurrency(row) == Len(row) >= 8 /\ row[8] \notin {"USD", "MXN", "CAD"}

BadDate(row) == Len(row) >= 7 /\ ~(Len(row[7]) = 10 /\ StrptimeOK(row[7]))

FailedRules(row) ==
    {r \in {"product_line"} : BadProductLine(row)}
    \cup {r \in {"currency"} : BadCurrency(row)}
    \cup {r \in {"date"} : BadDate(row)}

RuleOrder == <<"product_line", "currency", "date">>

FirstFailedRule(row) ==
    RuleOrder[CHOOSE n \in 1..3 :
                 /\ RuleOrder[n] \in FailedRules(row)
                 /\ \A m \in 1..(n - 1) : RuleOrder[m] \notin FailedRules(row)]

RowValid(row) == Len(row) = 9 /\ FailedRules(row) = {} /\ FloatOK(row[9])

AllRowsValid(rows) == \A k \in 1..Len(rows) : RowValid(rows[k])

FirstInvalidAt(rows, k) ==
    /\ k \in 1..Len(rows)
    /\ \A j \in 1..(k - 1) : RowValid(rows[j])
    /\ FailedRules(rows[k]) # {}

ValidationLines(i) ==
    SelectSeq(printed[i], LAMBDA l : l.kind \in {"product_line", "currency", "date"})

\* C1: an invocation on a file whose data rows are all valid ends by
\* returning {statusCode: 200, body: "No errors were found in the CSV file!"}.
C1_ValidFileReturns200 ==
    \A i \in Invocations :
        (Ended(i) /\ ReadOK(i) /\ AllRowsValid(DataRows(data[i])))
            => result[i] = Accepted200

\* C2: while the uploaded file has only valid data rows, no step of any
\* invocation mutates storage: no copy or delete call is issued, the source
\* object stays in the billing bucket unchanged, and the error bucket keeps
\* what it held.
C2_ValidFileNoMutation ==
    [][AllRowsValid(DataRows(original))
         => /\ billing' = {original}
            /\ quarantine' = quarantine
            /\ \A i \in Invocations : ~Mutating(calls'[i])]_vars

C2_Witness ==
    \E i \in Invocations :
        /\ pc[i] = "done"
        /\ ReadOK(i)
        /\ Len(DataRows(data[i])) >= 1
        /\ AllRowsValid(DataRows(data[i]))
        /\ billing = {original}

\* C3: when the first invalid data row is row k (rows before it valid, row k
\* with an unrecognised product line, unrecognised currency or bad date) the
\* scan never goes past row k, and an invocation that has ended without any
\* of its storage calls failing leaves the source key absent and the error
\* bucket holding the file's content.
C3_FirstInvalidRowQuarantines ==
    \A i \in Invocations : \A k \in 1..MaxRows :
        (ReadOK(i) /\ FirstInvalidAt(DataRows(data[i]), k))
            => /\ idx[i] <= k
               /\ (Ended(i) /\ \A n \in 1..Len(calls[i]) : calls[i][n][2] = "ok")
                     => (billing = NoObject /\ quarantine = {data[i]})

\* C4: a delete of the source object is always preceded by a successful copy
\* in the same invocation; the step in which the copy fails ends the
\* invocation and changes neither bucket; and unless another invocation moved
\* the file, the source object is still there and the error bucket did not
\* receive it.
C4_NoDeleteAfterFailedCopy ==
    [][\A i \in Invocations :
         /\ \A n \in 1..Len(calls'[i]) :
               calls'[i][n][1] = "delete"
                  => \E m \in 1..(n - 1) : calls'[i][m] = <<"copy", "ok">>
         /\ (pc[i] = "copy" /\ calls'[i] = Append(calls[i], <<"copy", "fail">>))
               => (pc'[i] = "done" /\ billing' = billing /\ quarantine' = quarantine)
         /\ (HasCallNext(i, <<"copy", "fail">>)
             /\ \A j \in Invocations \ {i} : ~Mutating(calls'[j]))
               => (billing' = {original} /\ quarantine' = quarantine
                   /\ ~HasCallNext(i, <<"delete", "ok">>)
                   /\ ~HasCallNext(i, <<"delete", "fail">>))]_vars

C4_Witness ==
    \E i \in Invocations :
        /\ pc[i] = "done"
        /\ HasCall(i, <<"copy", "fail">>)
        /\ billing = {original}
        /\ original \notin quarantine

\* C5: an invocation that found an invalid record never returns the accepted
\* result; that result is returned only when no invalid record was found.
C5_QuarantineNeverAccepted ==
    \A i \in Invocations : error_found[i] => result[i] # Accepted200

C7_BadProductLineAlwaysReported ==
    \A i \in Invocations :
        LET rows == DataRows(data[i])
        IN (ReadOK(i) /\ pc[i] # "scan" /\ idx[i] <= Len(rows)
            /\ BadProductLine(rows[idx[i]]))
              => /\ error_found[i]
                 /\ ValidationLines(i)
                      = << [kind |-> "product_line", record |-> rows[idx[i]][1],
                            value |-> rows[idx[i]][5]] >>

\* C8: once one invocation has completed the quarantine transition (copy and
\* delete both succeeded), another invocation that starts fails at its read
\* with NoSuchKey, returns nothing, issues no copy or delete, and the
\* quarantined copy stays as it is.
C8_ReinvocationFailsAtRead ==
    [][\A i \in Invocations : \A j \in Invocations \ {i} :
         (/\ pc[i] = "done"
          /\ HasCall(i, <<"copy", "ok">>)
          /\ HasCall(i, <<"delete", "ok">>)
          /\ pc[j] = "start"
          /\ pc'[j] # "start")
            => /\ pc'[j] = "raised"
               /\ exc'[j] = "NoSuchKey"
               /\ result'[j] = Pending
               /\ calls'[j] = << <<"get", "fail">> >>
               /\ billing' = NoObject
               /\ quarantine' = {original}
               /\ quarantine' = quarantine]_vars

C8_Witness ==
    \E i \in Invocations : \E j \in Invocations \ {i} :
        /\ pc[i] = "done"
        /\ HasCall(i, <<"copy", "ok">>)
        /\ HasCall(i, <<"delete", "ok">>)
        /\ pc[j] = "raised"
        /\ exc[j] = "NoSuchKey"
        /\ calls[j] = << <<"get", "fail">> >>
        /\ quarantine = {original}

\* C9: an invocation whose copy or delete failed has completed, returning
\* None after printing the error, and nothing raised inside the try block
\* ever leaves the handler; when its copy succeeded and its delete failed
\* (and no other invocation deleted the object) the object is in both
\* buckets; and the object is never in neither bucket.
C9_TransitionFailureCaught ==
    /\ \A i \in Invocations :
          /\ (HasCall(i, <<"copy", "fail">>) \/ HasCall(i, <<"delete", "fail">>))
                => /\ pc[i] = "done"
                   /\ result[i] = NoneResult
                   /\ printed[i][Len(printed[i])].kind = "move_error"
          /\ pc[i] = "raised" => (Len(calls[i]) = 1 /\ copy_source[i] = {})
          /\ pc[i] = "raised" => exc[i] \in {"NoSuchKey", "IndexError", "ValueError"}
          /\ (/\ HasCall(i, <<"copy", "ok">>)
              /\ HasCall(i, <<"delete", "fail">>)
              /\ \A j \in Invocations \ {i} : ~HasCall(j, <<"delete", "ok">>))
                => (billing = {original} /\ quarantine = {original})
    /\ original \in (billing \cup quarantine)

C9_Witness ==
    \E i \in Invocations :
        /\ pc[i] = "done"
        /\ HasCall(i, <<"copy", "ok">>)
        /\ HasCall(i, <<"delete", "fail">>)
        /\ billing = {original}
        /\ quarantine = {original}

\* C10: for a file that contains an invalid record, under every interleaving
\* of the two invocations the original content is in the billing bucket or
\* in the error bucket, and no invocation whose read succeeded raises.
C10_ConcurrentNeverLostNoRaise ==
    (\E k \in 1..Len(DataRows(original)) : FailedRules(DataRows(original)[k]) # {})
        => /\ original \in (billing \cup quarantine)
           /\ \A i \in Invocations : ReadOK(i) => pc[i] # "raised"

====
